---- MODULE Spec2Model ----
(***************************************************************************)
(* Model of the STM32 USART bootloader host session (StmDevice) and of the *)
(* protocol helpers it uses.  One behaviour is one session: a sequence of  *)
(* calls of the public operations on one StmDevice, each call broken into  *)
(* its transport interactions (one write_all / read_exact per step).  The  *)
(* serial port is the environment: every write may fail, every read may    *)
(* fail or yield any byte of a small alphabet.                             *)
(***************************************************************************)
EXTENDS Integers, Sequences, FiniteSets, TLC

(***************************************************************************)
(* Wire constants.                                                         *)
(***************************************************************************)
ACK == 121          \* 0x79
NACK == 31          \* 0x1F
WAKE == 127         \* 0x7F
retry_amount == 5

(* opcodes of the commands the session issues *)
Get == 0            \* CommonCommand::Get = 0x00
GetId == 2          \* CommonCommand::GetId = 0x02
ReadMemory == 17    \* CommonCommand::ReadMemory = 0x11

(***************************************************************************)
(* Bounds of the model.                                                    *)
(***************************************************************************)
MaxNacks == 3       \* Nack bytes the port yields within one initialise call
MaxFree == 2        \* leading bytes of a payload that range freely

(***************************************************************************)
(* What the environment can put on the wire.                               *)
(***************************************************************************)
\* bytes the port may yield where an ACK/NACK is awaited
AckBytes == {ACK, NACK, 0}
\* bytes of payloads: id bytes 0x04 0x16, version bytes 0x31 0x40, opcodes
\* 0x31 (Common) 0x73 (PreV4 and PostV4), 0x99 (no command)
SampleBytes == {4, 22, 49, 64, 115, 153}
\* filler of the bytes of a payload after the first MaxFree
FillBytes == {0, 153}
\* length bytes the device may announce
LenBytes == {0, 1, 2, 255}
\* arguments of read_memory
Addresses == {134217728, 305419896}     \* 0x08000000, 0x12345678
ByteCounts == {0, 4, 255}

Min(a, b) == IF a < b THEN a ELSE b

\* the buffers read_exact(n) may fill
Payloads(n) ==
    LET k == Min(n, MaxFree)
    IN  { [i \in 1..n |-> IF i <= k THEN head[i] ELSE fill] :
            head \in [1..k -> SampleBytes], fill \in FillBytes }

\* outcome of one read_exact of a single byte: a byte of S, or an io error
ReadOutcomes(S) ==
    { [ok |-> TRUE, b |-> x] : x \in S } \cup { [ok |-> FALSE, b |-> 0] }

(***************************************************************************)
(* 8-bit arithmetic.                                                       *)
(***************************************************************************)
RECURSIVE BitAnd(_, _)
BitAnd(a, b) ==
    IF a = 0 \/ b = 0 THEN 0
    ELSE (IF (a % 2) = 1 /\ (b % 2) = 1 THEN 1 ELSE 0) + (2 * BitAnd(a \div 2, b \div 2))

RECURSIVE BitXor(_, _)
BitXor(a, b) ==
    IF a = 0 THEN b
    ELSE IF b = 0 THEN a
    ELSE (((a % 2) + (b % 2)) % 2) + (2 * BitXor(a \div 2, b \div 2))

\* the complement of the low 7 bits only
BitNot_7bit(b) == BitXor(b, 127)

\* !b on u8
BitNot(b) == BitXor(b, 255)

(***************************************************************************)
(* protocol/command.rs: the three opcode spaces and the command frame.     *)
(***************************************************************************)
CommonCommand == {0, 1, 2, 17, 33, 49, 68, 99}  \* 0x00 0x01 0x02 0x11 0x21 0x31 0x44 0x63
PreV4Command == {67, 115, 130, 146}             \* 0x43 0x73 0x82 0x92
PostV4Command == {80, 115}                      \* 0x50 0x73

\* Option<Command>
NoCommand == [some |-> FALSE, set |-> "", op |-> 0]
SomeCommand(set, b) == [some |-> TRUE, set |-> set, op |-> b]

\* impl From<Command> for Vec<u8>: vec![b, !b]
CommandToVec(b) == <<b, BitNot(b)>>

(***************************************************************************)
(* protocol/mod.rs: ProtocolVersion (Option<(u8, u8)>, <<>> is None).      *)
(***************************************************************************)
unknown == <<>>

is_known(version) == version # <<>>

\* is_post_v4 with the boundary off by one (major > 4)
is_post_v4_above(version) == IF version = <<>> THEN FALSE ELSE version[1] > 4

is_post_v4(version) == IF version = <<>> THEN FALSE ELSE version[1] >= 4

parse_command(version, command) ==
    IF command \in CommonCommand THEN SomeCommand("Common", command)
    ELSE IF is_known(version)
         THEN IF is_post_v4(version)
              THEN IF command \in PostV4Command
                   THEN SomeCommand("PostV4", command) ELSE NoCommand
              ELSE IF command \in PreV4Command
                   THEN SomeCommand("PreV4", command) ELSE NoCommand
         ELSE NoCommand

\* impl From<u8> for ProtocolVersion
ProtocolVersionFrom(value) ==
    << BitAnd(value, 240) \div 16, BitAnd(value, 15) >>

(***************************************************************************)
(* Results.  A Result<_, StmDeviceError> is a record: status is "Ok" or    *)
(* "Err"; err names the error variant, cmd its command, byte its offending *)
(* byte; kind/val/ver hold the Ok value or the error's payload.            *)
(***************************************************************************)
Res(status, err, cmd, byte, kind, val, ver) ==
    [status |-> status, err |-> err, cmd |-> cmd, byte |-> byte,
     kind |-> kind, val |-> val, ver |-> ver]

NoResult == Res("None", "", 0, 0, "", <<>>, <<>>)
Pending == Res("Pending", "", 0, 0, "", <<>>, <<>>)
Panicked == Res("Panic", "", 0, 0, "", <<>>, <<>>)
OkUnit == Res("Ok", "", 0, 0, "unit", <<>>, <<>>)
OkVal(kind, val, ver) == Res("Ok", "", 0, 0, kind, val, ver)
Err(e) == Res("Err", e, 0, 0, "", <<>>, <<>>)
ErrCmd(e, c) == Res("Err", e, c, 0, "", <<>>, <<>>)
ErrByte(e, b) == Res("Err", e, 0, b, "", <<>>, <<>>)

\* Protocol::try_from reporting the first unknown command only
ProtocolTryFrom_first_only(bytes) ==
    IF Len(bytes) = 0 THEN Err("MissingProtocol")
    ELSE LET version == ProtocolVersionFrom(bytes[1])
             unknown_commands ==
                 SelectSeq(Tail(bytes),
                           LAMBDA b : ~parse_command(version, b).some)
         IN  IF unknown_commands = <<>>
             THEN OkVal("Protocol", <<>>, version)
             ELSE Res("Err", "UnknownCommands", 0, 0, "",
                      <<Head(unknown_commands)>>, version)

\* impl TryFrom<&[u8]> for Protocol
ProtocolTryFrom(bytes) ==
    IF Len(bytes) = 0 THEN Err("MissingProtocol")
    ELSE LET version == ProtocolVersionFrom(bytes[1])
             unknown_commands ==
                 SelectSeq(Tail(bytes),
                           LAMBDA b : ~parse_command(version, b).some)
         IN  IF unknown_commands = <<>>
             THEN OkVal("Protocol", <<>>, version)
             ELSE Res("Err", "UnknownCommands", 0, 0, "", unknown_commands, version)

\* ProductId::from reading the two bytes least significant first
ProductIdFrom_le(bytes) ==
    IF Len(bytes) = 2
    THEN OkVal("Stm32", <<(bytes[2] * 256) + bytes[1]>>, <<>>)
    ELSE OkVal("Unknown", bytes, <<>>)

\* impl From<&[u8]> for ProductId
ProductIdFrom(bytes) ==
    IF Len(bytes) = 2
    THEN OkVal("Stm32", <<(bytes[1] * 256) + bytes[2]>>, <<>>)
    ELSE OkVal("Unknown", bytes, <<>>)

\* the address bytes least significant first
to_le_bytes(a) ==
    << a % 256, (a \div 256) % 256, (a \div 65536) % 256, (a \div 16777216) % 256 >>

\* u32::to_be_bytes
to_be_bytes(a) ==
    << (a \div 16777216) % 256, (a \div 65536) % 256, (a \div 256) % 256, a % 256 >>

\* an additive checksum in place of the xor fold
RECURSIVE XorFold_sum(_, _)
XorFold_sum(bytes, checksum) ==
    IF bytes = <<>> THEN checksum
    ELSE XorFold_sum(Tail(bytes), (checksum + Head(bytes)) % 256)

RECURSIVE XorFold(_, _)
XorFold(bytes, checksum) ==
    IF bytes = <<>> THEN checksum
    ELSE XorFold(Tail(bytes), BitXor(checksum, Head(bytes)))

\* the frame send_bytes writes: bytes followed by their xor fold from 0
BytesFrame(bytes) == bytes \o <<XorFold(bytes, 0)>>

\* the frame send_byte writes
ByteFrame(byte) == <<byte, BitNot(byte)>>

(***************************************************************************)
(* StmDevice.                                                              *)
(*   initialised, protocol_version   the fields of the session             *)
(*   pc             position of the caller inside the current operation    *)
(*   op, address, byte_count   the operation called last and its arguments *)
(*   command, attempt          retry_command's argument and loop counter   *)
(*   errs           errors send_command returned to the running            *)
(*                  retry_command, in order                                *)
(*   response_bytes, response  locals of get_protocol/get_version/get_id   *)
(*   tx             frames handed to write_all during the call, in order   *)
(*   reads          number of read_exact calls of the call                 *)
(*   last_read      outcome of the latest read_byte                        *)
(*   result         what the operation called last returned                *)
(*   fn, arg, out   the helper function applied last outside any operation *)
(*                  (none inside a session), its argument and its value    *)
(***************************************************************************)
VARIABLES initialised, protocol_version, pc, op, address, byte_count,
          command, attempt, errs, response_bytes, response,
          tx, reads, last_read, result,
          fn, arg, out

vars == <<initialised, protocol_version, pc, op, address, byte_count,
          command, attempt, errs, response_bytes, response,
          tx, reads, last_read, result, fn, arg, out>>

\* the fields and call state of the StmDevice
device == <<initialised, protocol_version, pc, op, address, byte_count,
            command, attempt, errs, response_bytes, response,
            tx, reads, last_read, result>>

\* a helper function applied on its own: its name, its argument, its value
pure == <<fn, arg, out>>

session == <<initialised, protocol_version>>
NoRead == [ok |-> FALSE, b |-> 0]

\* what a read outcome is, as a reply
IsAck(r) == r.ok /\ r.b = ACK
IsNack(r) == r.ok /\ r.b = NACK
IsOther(r) == r.ok /\ r.b \notin {ACK, NACK}

\* StmDevice::new
Init ==
    /\ initialised = FALSE
    /\ protocol_version = unknown
    /\ pc = "idle"
    /\ op = "new"
    /\ address = 0
    /\ byte_count = 0
    /\ command = 0
    /\ attempt = 0
    /\ errs = <<>>
    /\ response_bytes = 0
    /\ response = <<>>
    /\ tx = <<>>
    /\ reads = 0
    /\ last_read = NoRead
    /\ result = NoResult
    /\ fn = "none"
    /\ arg = <<>>
    /\ out = <<>>

\* a public operation is entered: its arguments are bound, the call's logs are empty
Enter(o, c, a, n) ==
    /\ pc = "idle"
    /\ op' = o
    /\ command' = c
    /\ address' = a
    /\ byte_count' = n
    /\ attempt' = 0
    /\ errs' = <<>>
    /\ response_bytes' = 0
    /\ response' = <<>>
    /\ last_read' = NoRead
    /\ UNCHANGED pure

\* the operation returns r to the caller; its locals are dropped
Return(r) ==
    /\ pc' = "idle"
    /\ result' = r
    /\ attempt' = 0
    /\ response_bytes' = 0
    /\ response' = <<>>

\* get_ack with the catch-all arm answering Ok(false) instead of ExpectedAck
get_ack_lenient(r) ==
    IF ~r.ok THEN Err("Io")
    ELSE IF r.b = ACK THEN OkVal("bool", <<TRUE>>, <<>>)
    ELSE OkVal("bool", <<FALSE>>, <<>>)

\* get_ack, applied to the outcome r of its read_byte
get_ack(r) ==
    IF ~r.ok THEN Err("Io")
    ELSE IF r.b = ACK THEN OkVal("bool", <<TRUE>>, <<>>)
    ELSE IF r.b = NACK THEN OkVal("bool", <<FALSE>>, <<>>)
    ELSE ErrByte("ExpectedAck", r.b)

\* send_command without the `if self.initialised` check
send_command_unchecked(init, w, r) ==
    IF ~w THEN Err("Io") ELSE get_ack(r)

\* send_command, given whether its write_all succeeds (w) and what its read yields (r)
send_command(init, w, r) ==
    IF init
    THEN IF ~w THEN Err("Io") ELSE get_ack(r)
    ELSE Err("Uninitialised")

\* the match of retry_command with Ok(false) falling through to the next attempt
retry_match_nack_retried(res) ==
    IF res.status = "Ok" /\ res.val[1] THEN "return_ok" ELSE "next"

\* the match of retry_command on send_command's result
retry_match(res) ==
    IF res.status = "Ok"
    THEN IF res.val[1] THEN "return_ok" ELSE "return_fail"
    ELSE "next"

\* where each operation continues after retry_command(..)?
AfterCommand(o) ==
    CASE o = "get_protocol" -> "get_protocol_len"
      [] o = "get_version" -> "get_version_response"
      [] o = "get_id" -> "get_id_len"
      [] o = "read_memory" -> "read_memory_address"

\* initialise without the `if self.initialised` check
initialise_unguarded ==
    /\ Enter("initialise", 0, 0, 0)
    /\ reads' = 0
    /\ UNCHANGED session
    /\ \E w \in BOOLEAN :
        /\ tx' = << <<WAKE>> >>
        /\ IF w THEN pc' = "initialise" /\ result' = Pending
                ELSE pc' = "idle" /\ result' = Err("Io")

\* initialise starting over on an Initialised session: the flag is cleared and
\* the wake byte sent again
initialise_rewaking ==
    /\ Enter("initialise", 0, 0, 0)
    /\ reads' = 0
    /\ initialised' = FALSE
    /\ UNCHANGED protocol_version
    /\ \E w \in BOOLEAN :
        /\ tx' = << <<WAKE>> >>
        /\ IF w THEN pc' = "initialise" /\ result' = Pending
                ELSE pc' = "idle" /\ result' = Err("Io")

initialise ==
    /\ Enter("initialise", 0, 0, 0)
    /\ reads' = 0
    /\ UNCHANGED session
    /\ IF initialised
       THEN /\ tx' = <<>>
            /\ pc' = "idle"
            /\ result' = Err("AlreadyInitialised")
       ELSE \E w \in BOOLEAN :
            /\ tx' = << <<WAKE>> >>
            /\ IF w THEN pc' = "initialise" /\ result' = Pending
                    ELSE pc' = "idle" /\ result' = Err("Io")

\* one turn of `while !self.get_ack()? {}` and what follows the loop
initialise_get_ack ==
    /\ pc = "initialise"
    /\ \E r \in ReadOutcomes(AckBytes) :
        /\ (r.ok /\ r.b = NACK) => reads < MaxNacks
        /\ reads' = reads + 1
        /\ last_read' = r
        /\ LET a == get_ack(r)
           IN  IF a.status = "Err"
               THEN Return(a) /\ UNCHANGED initialised
               ELSE IF a.val[1]
                    THEN Return(OkUnit) /\ initialised' = TRUE
                    ELSE UNCHANGED <<pc, result, attempt, response_bytes,
                                     response, initialised>>
    /\ UNCHANGED <<pure, protocol_version, op, address, byte_count, command, errs, tx>>

\* the first statement of a command operation: `self.retry_command(..)?` is entered
Call ==
    /\ pc' = "retry_command"
    /\ result' = Pending
    /\ tx' = <<>>
    /\ reads' = 0
    /\ UNCHANGED session

get_protocol ==
    /\ Enter("get_protocol", Get, 0, 0)
    /\ Call

get_version ==
    /\ Enter("get_version", Get, 0, 0)
    /\ Call

get_id ==
    /\ Enter("get_id", GetId, 0, 0)
    /\ Call

read_memory ==
    \E a \in Addresses, n \in ByteCounts :
        /\ Enter("read_memory", ReadMemory, a, n)
        /\ Call

\* one iteration of the loop of retry_command, and its return
retry_command ==
    /\ pc = "retry_command"
    /\ \E w \in BOOLEAN, r \in ReadOutcomes(AckBytes) :
        LET res == send_command(initialised, w, r)
            m == retry_match(res)
        IN  /\ tx' = IF initialised THEN Append(tx, CommandToVec(command)) ELSE tx
            /\ reads' = IF initialised /\ w THEN reads + 1 ELSE reads
            /\ last_read' = IF initialised /\ w THEN r ELSE last_read
            /\ CASE m = "return_ok" ->
                      /\ pc' = AfterCommand(op)
                      /\ attempt' = 0
                      /\ errs' = <<>>
                      /\ UNCHANGED <<result, response_bytes, response>>
                 [] m = "return_fail" ->
                      /\ Return(ErrCmd("CommandFail", command))
                      /\ UNCHANGED errs
                 [] m = "next" ->
                      /\ errs' = Append(errs, res)
                      /\ IF attempt + 1 < retry_amount
                         THEN /\ attempt' = attempt + 1
                              /\ UNCHANGED <<pc, result, response_bytes, response>>
                         ELSE Return(ErrCmd("RetryExceeded", command))
    /\ UNCHANGED <<pure, session, op, address, byte_count, command>>

\* `self.read_byte()? + 1` on u8, then the operation goes on at `next`:
\* 255 + 1 aborts the program where overflow is checked and wraps to 0 elsewhere
read_len(next) ==
    \E r \in ReadOutcomes(LenBytes) :
        /\ reads' = reads + 1
        /\ last_read' = r
        /\ IF ~r.ok
           THEN Return(Err("Io"))
           ELSE IF r.b + 1 <= 255
                THEN /\ response_bytes' = r.b + 1
                     /\ pc' = next
                     /\ UNCHANGED <<result, attempt, response>>
                ELSE \/ /\ pc' = "panicked"
                        /\ result' = Panicked
                        /\ UNCHANGED <<attempt, response_bytes, response>>
                     \/ /\ response_bytes' = (r.b + 1) % 256
                        /\ pc' = next
                        /\ UNCHANGED <<result, attempt, response>>
        /\ UNCHANGED <<pure, session, op, address, byte_count, command, errs, tx>>

\* `self.read_bytes(amount)?` into response, then the operation goes on at `next`
\* (read_exact into an empty buffer returns Ok without touching the port)
read_response(amount, next) ==
    /\ reads' = reads + 1
    /\ \/ /\ amount > 0
          /\ Return(Err("Io"))
       \/ \E buf \in Payloads(amount) :
              /\ response' = buf
              /\ pc' = next
              /\ UNCHANGED <<result, attempt, response_bytes>>
    /\ UNCHANGED <<pure, session, op, address, byte_count, command, errs, tx, last_read>>

get_protocol_len ==
    /\ pc = "get_protocol_len"
    /\ read_len("get_protocol_response")

get_protocol_response ==
    /\ pc = "get_protocol_response"
    /\ read_response(response_bytes, "get_protocol_ack")

\* get_protocol storing the payload's version before the commands are validated
get_protocol_ack_storing ==
    /\ pc = "get_protocol_ack"
    /\ \E r \in ReadOutcomes(AckBytes) :
        /\ reads' = reads + 1
        /\ last_read' = r
    /\ Return(ProtocolTryFrom(response))
    /\ protocol_version' = IF Len(response) > 0
                           THEN ProtocolVersionFrom(response[1])
                           ELSE protocol_version
    /\ UNCHANGED <<pure, initialised, op, address, byte_count, command, errs, tx>>

\* `self.get_ack().ok();` and the return of get_protocol
get_protocol_ack ==
    /\ pc = "get_protocol_ack"
    /\ \E r \in ReadOutcomes(AckBytes) :
        /\ reads' = reads + 1
        /\ last_read' = r
    /\ Return(ProtocolTryFrom(response))
    /\ UNCHANGED <<pure, session, op, address, byte_count, command, errs, tx>>

get_version_response ==
    /\ pc = "get_version_response"
    /\ read_response(3, "get_version_ack")

\* get_version forgetting the version when the trailing byte is no Ack
get_version_ack_forgetting ==
    /\ pc = "get_version_ack"
    /\ \E r \in ReadOutcomes(AckBytes) :
        /\ reads' = reads + 1
        /\ last_read' = r
        /\ IF IsAck(r)
           THEN /\ protocol_version' = ProtocolVersionFrom(response[1])
                /\ Return(OkVal("ProtocolVersion", <<>>, protocol_version'))
           ELSE /\ protocol_version' = unknown
                /\ Return(get_ack(r))
    /\ UNCHANGED <<pure, initialised, op, address, byte_count, command, errs, tx>>

\* `self.get_ack().ok();` and the rest of get_version
get_version_ack ==
    /\ pc = "get_version_ack"
    /\ \E r \in ReadOutcomes(AckBytes) :
        /\ reads' = reads + 1
        /\ last_read' = r
    /\ protocol_version' = ProtocolVersionFrom(response[1])
    /\ Return(OkVal("ProtocolVersion", <<>>, protocol_version'))
    /\ UNCHANGED <<pure, initialised, op, address, byte_count, command, errs, tx>>

get_id_len ==
    /\ pc = "get_id_len"
    /\ read_len("get_id_response")

get_id_response ==
    /\ pc = "get_id_response"
    /\ read_response(response_bytes, "get_id_ack")

\* `self.get_ack().ok();` and the return of get_id
get_id_ack ==
    /\ pc = "get_id_ack"
    /\ \E r \in ReadOutcomes(AckBytes) :
        /\ reads' = reads + 1
        /\ last_read' = r
    /\ Return(ProductIdFrom(response))
    /\ UNCHANGED <<pure, session, op, address, byte_count, command, errs, tx>>

\* send_bytes / send_byte: write the frame, then `self.get_ack()?;`
send_frame(frame, next) ==
    /\ tx' = Append(tx, frame)
    /\ \E w \in BOOLEAN, r \in ReadOutcomes(AckBytes) :
        IF ~w
        THEN /\ Return(Err("Io"))
             /\ UNCHANGED <<reads, last_read>>
        ELSE /\ reads' = reads + 1
             /\ last_read' = r
             /\ IF get_ack(r).status = "Err"
                THEN Return(get_ack(r))
                ELSE /\ pc' = next
                     /\ UNCHANGED <<result, attempt, response_bytes, response>>
    /\ UNCHANGED <<pure, session, op, address, byte_count, command, errs>>

\* `self.send_bytes(&address.to_be_bytes())?;`
read_memory_address ==
    /\ pc = "read_memory_address"
    /\ send_frame(BytesFrame(to_be_bytes(address)), "read_memory_count")

\* `self.send_byte(byte_count)?;`
read_memory_count ==
    /\ pc = "read_memory_count"
    /\ send_frame(ByteFrame(byte_count), "read_memory_data")

\* `self.read_bytes(byte_count as usize + 1)`
read_memory_data ==
    /\ pc = "read_memory_data"
    /\ reads' = reads + 1
    /\ \/ Return(Err("Io"))
       \/ \E buf \in Payloads(byte_count + 1) : Return(OkVal("bytes", buf, <<>>))
    /\ UNCHANGED <<pure, session, op, address, byte_count, command, errs, tx, last_read>>

Next ==
    \/ initialise
    \/ initialise_get_ack
    \/ get_protocol
    \/ get_protocol_len
    \/ get_protocol_response
    \/ get_protocol_ack
    \/ get_version
    \/ get_version_response
    \/ get_version_ack
    \/ get_id
    \/ get_id_len
    \/ get_id_response
    \/ get_id_ack
    \/ read_memory
    \/ read_memory_address
    \/ read_memory_count
    \/ read_memory_data
    \/ retry_command

Spec == Init /\ [][Next]_vars

(***************************************************************************)
(* The helper functions applied on their own, outside any operation: the   *)
(* device stays as StmDevice::new left it, fn/arg/out hold the function    *)
(* applied last, its argument and its value.                               *)
(***************************************************************************)
MaxSeqLen == 3      \* longest byte sequence handed to send_bytes

\* the versions a status byte can give, and unknown
Versions == {unknown} \cup { <<major, minor>> : major \in 0..15, minor \in {0, 9} }
Bytes == 0..255
\* bytes of the sequences handed to send_bytes
FrameBytes == {0, 8, 120, 255}
ByteSeqs == UNION { [1..n -> FrameBytes] : n \in 0..MaxSeqLen }
\* every value of Command
Commands ==
    { SomeCommand("Common", b) : b \in CommonCommand }
    \cup { SomeCommand("PreV4", b) : b \in PreV4Command }
    \cup { SomeCommand("PostV4", b) : b \in PostV4Command }

\* f is applied to a and gives v
Apply(f, a, v) ==
    /\ fn' = f
    /\ arg' = a
    /\ out' = v
    /\ UNCHANGED device

\* ProtocolVersion::parse_command(&self, command)
apply_parse_command ==
    \E version \in Versions, b \in Bytes :
        /\ fn = "none"
        /\ Apply("parse_command", <<version, b>>, parse_command(version, b))

\* Vec::<u8>::from(command)
apply_command_to_vec ==
    \E c \in Commands :
        /\ fn = "none"
        /\ Apply("command_to_vec", c, CommandToVec(c.op))

\* the frame send_byte(byte) writes
apply_send_byte ==
    \E b \in Bytes :
        /\ fn = "none"
        /\ Apply("send_byte", b, ByteFrame(b))

\* the frame send_bytes(bytes) writes
apply_send_bytes ==
    \E bytes \in ByteSeqs :
        /\ fn = "none"
        /\ Apply("send_bytes", bytes, BytesFrame(bytes))

PureNext ==
    \/ apply_parse_command
    \/ apply_command_to_vec
    \/ apply_send_byte
    \/ apply_send_bytes

PureSpec == Init /\ [][PureNext]_vars

(***************************************************************************)
(* The wait loop of initialise without a cap on the Nack bytes, for         *)
(* termination: the loop has no counter, so the reads of the call are       *)
(* counted exactly up to MaxNacks + 1 and alternate between MaxNacks and    *)
(* MaxNacks + 1 after that.                                                 *)
(***************************************************************************)
CountRead(n) == IF n > MaxNacks THEN MaxNacks ELSE n + 1

\* the wait loop giving up with an error once MaxNacks Nack bytes were skipped
initialise_wait_bounded ==
    /\ pc = "initialise"
    /\ \E r \in ReadOutcomes(AckBytes) :
        /\ reads' = CountRead(reads)
        /\ last_read' = r
        /\ LET a == get_ack(r)
           IN  IF a.status = "Err"
               THEN Return(a) /\ UNCHANGED initialised
               ELSE IF a.val[1]
                    THEN Return(OkUnit) /\ initialised' = TRUE
                    ELSE IF reads >= MaxNacks
                         THEN Return(Err("Io")) /\ UNCHANGED initialised
                         ELSE UNCHANGED <<pc, result, attempt, response_bytes,
                                          response, initialised>>
    /\ UNCHANGED <<pure, protocol_version, op, address, byte_count, command, errs, tx>>

\* one turn of `while !self.get_ack()? {}` and what follows the loop
initialise_wait ==
    /\ pc = "initialise"
    /\ \E r \in ReadOutcomes(AckBytes) :
        /\ reads' = CountRead(reads)
        /\ last_read' = r
        /\ LET a == get_ack(r)
           IN  IF a.status = "Err"
               THEN Return(a) /\ UNCHANGED initialised
               ELSE IF a.val[1]
                    THEN Return(OkUnit) /\ initialised' = TRUE
                    ELSE UNCHANGED <<pc, result, attempt, response_bytes,
                                     response, initialised>>
    /\ UNCHANGED <<pure, protocol_version, op, address, byte_count, command, errs, tx>>

\* a turn of the wait loop whose read yields an error or a byte other than Nack
initialise_answered ==
    /\ initialise_wait
    /\ ~IsNack(last_read')

LiveNext ==
    \/ initialise
    \/ initialise_wait
    \/ get_protocol
    \/ get_protocol_len
    \/ get_protocol_response
    \/ get_protocol_ack
    \/ get_version
    \/ get_version_response
    \/ get_version_ack
    \/ get_id
    \/ get_id_len
    \/ get_id_response
    \/ get_id_ack
    \/ read_memory
    \/ read_memory_address
    \/ read_memory_count
    \/ read_memory_data
    \/ retry_command

\* every read of the wait loop returns, and the transport does not answer
\* Nack for ever
LiveSpec ==
    /\ Init
    /\ [][LiveNext]_vars
    /\ WF_vars(initialise_wait)
    /\ WF_vars(initialise_answered)

(***************************************************************************)
(* Properties.                                                             *)
(***************************************************************************)

\* C1: a command operation (get_protocol, get_id, read_memory) called on a
\* session whose initialised flag is false returns the Uninitialised error
\* itself: it is not retried (no second attempt of retry_command is made) and
\* it is not reported as another error.
C1_UninitialisedReported ==
    (pc = "idle" /\ op \in {"get_protocol", "get_id", "read_memory"} /\ ~initialised)
        => /\ result = Err("Uninitialised")
           /\ errs = <<>>

\* C2: when the device answers an attempt of retry_command with Nack, that
\* step ends the call with the command-failure error naming the command: the
\* frame was written once more by this attempt only, one byte was read, and
\* the caller is back at idle, so nothing further is written or read.
C2_NackEndsRetry ==
    [][ (pc = "retry_command" /\ reads' = reads + 1 /\ IsNack(last_read'))
            => /\ pc' = "idle"
               /\ result' = ErrCmd("CommandFail", command)
               /\ tx' = Append(tx, CommandToVec(command))
               /\ UNCHANGED session ]_vars

\* C2 witness: a call that ended with CommandFail on its first attempt, after
\* exactly one frame written and one byte (the Nack) read.
C2_Witness ==
    /\ pc = "idle"
    /\ op = "get_id"
    /\ result = ErrCmd("CommandFail", GetId)
    /\ tx = << CommandToVec(GetId) >>
    /\ reads = 1
    /\ IsNack(last_read)

\* C3: a reply to an issued command that is neither 0x79 nor 0x1F is not
\* retried: retry_command never swallows an unexpected-response-byte error and
\* goes on, the operation fails with that error.
C3_UnexpectedByteNotRetried ==
    /\ \A i \in 1..Len(errs) : errs[i].err # "ExpectedAck"
    /\ (pc = "idle" /\ result.status = "Err" /\ result.err = "ExpectedAck")
           => IsOther(last_read) /\ result.byte = last_read.b

\* C4: retry_command writes the command frame at most 5 times, and it returns
\* the retries-exhausted error only when all 5 attempts failed with a
\* transport (Io) error: no other error consumes an attempt.
C4_RetryBound ==
    /\ (pc = "retry_command") => Len(tx) <= retry_amount
    /\ \A i \in 1..Len(errs) : errs[i].err = "Io"
    /\ (pc = "idle" /\ result.status = "Err" /\ result.err = "RetryExceeded")
           => /\ Len(errs) = retry_amount
              /\ result.cmd = command

\* C5: initialise on an Uninitialised session writes the wake byte 0x7F once,
\* then reads one byte per turn: a Nack is skipped (the call goes on, nothing
\* is written again), the session becomes Initialised exactly in the turn that
\* reads an Ack, and a turn that reads any other byte or fails ends the call
\* with an error and leaves initialised false.
C5_Initialise ==
    [][ /\ (pc = "idle" /\ op' = "initialise" /\ ~initialised)
            => /\ tx' = << <<WAKE>> >>
               /\ reads' = 0
               /\ ~initialised'
               /\ pc' = "initialise" \/ (pc' = "idle" /\ result' = Err("Io"))
        /\ (pc = "initialise")
            => /\ ~initialised
               /\ tx' = tx
               /\ reads' = reads + 1
               /\ IsNack(last_read') => (pc' = "initialise" /\ ~initialised')
               /\ IsAck(last_read') => (pc' = "idle" /\ initialised' /\ result' = OkUnit)
               /\ IsOther(last_read')
                    => /\ pc' = "idle"
                       /\ ~initialised'
                       /\ result' = ErrByte("ExpectedAck", last_read'.b)
               /\ ~last_read'.ok
                    => (pc' = "idle" /\ ~initialised' /\ result' = Err("Io"))
        /\ (initialised' # initialised)
            => (pc = "initialise" /\ IsAck(last_read') /\ initialised')
      ]_vars

\* C5 witness: initialise returned Ok after skipping two Nacks: one wake byte
\* written, three bytes read, the last an Ack, the session Initialised.
C5_Witness ==
    /\ pc = "idle"
    /\ op = "initialise"
    /\ result = OkUnit
    /\ initialised
    /\ tx = << <<WAKE>> >>
    /\ reads = 3
    /\ IsAck(last_read)

\* C6: initialise called on an Initialised session returns AlreadyInitialised,
\* leaves initialised and protocol_version as they were and neither writes to
\* nor reads from the transport.
C6_AlreadyInitialised ==
    [][ (pc = "idle" /\ initialised /\ op' = "initialise")
            => /\ result' = Err("AlreadyInitialised")
               /\ pc' = "idle"
               /\ initialised' = initialised
               /\ protocol_version' = protocol_version
               /\ tx' = <<>>
               /\ reads' = 0 ]_vars

\* C6 witness: a second initialise has failed on a session whose version is known.
C6_Witness ==
    /\ pc = "idle"
    /\ op = "initialise"
    /\ result = Err("AlreadyInitialised")
    /\ initialised
    /\ is_known(protocol_version)
    /\ tx = <<>>
    /\ reads = 0

\* C7: after a successful get_protocol the session's protocol_version holds
\* the (major, minor) pair parsed from byte 0 of the payload (the pair the
\* call returned).
C7_GetProtocolStoresVersion ==
    (pc = "idle" /\ op = "get_protocol" /\ result.status = "Ok")
        => protocol_version = result.ver

\* C8 (as claimed): protocol_version starts unknown and, once known, keeps its
\* value: no later query overwrites it.
C8_WrittenOnce ==
    /\ protocol_version = unknown
    /\ [][ is_known(protocol_version) => protocol_version' = protocol_version ]_vars

\* C8 (amended): protocol_version starts unknown; once known it never returns
\* to unknown; it changes only when get_version returns Ok, to the pair parsed
\* from byte 0 of that query's response (a later successful get_version
\* overwrites the earlier value).
C8_OneWayKnown ==
    /\ protocol_version = unknown
    /\ [][ /\ is_known(protocol_version) => is_known(protocol_version')
           /\ (protocol_version' # protocol_version)
                => /\ pc = "get_version_ack"
                   /\ pc' = "idle"
                   /\ result'.status = "Ok"
                   /\ protocol_version' = ProtocolVersionFrom(response[1])
                   /\ result'.ver = protocol_version'
         ]_vars

\* C8 witness: a get_version is about to return on a session whose version is
\* already known, with a response whose byte 0 gives another version.
C8_Witness ==
    /\ pc = "get_version_ack"
    /\ is_known(protocol_version)
    /\ ProtocolVersionFrom(response[1]) # protocol_version

\* C9: in get_protocol and get_id, when the trailing acknowledgement byte read
\* after the payload is not Ack (it is Nack or any other byte), the call
\* fails: no call returns Ok after reading such a byte last.
C9_TrailingAckChecked ==
    (pc = "idle" /\ op \in {"get_protocol", "get_id"} /\ result.status = "Ok")
        => ~(IsNack(last_read) \/ IsOther(last_read))

\* C10: in read_memory a Nack in reply to the address frame or to the count
\* frame fails the call at once: the call never stands before writing the
\* count frame, nor before reading the data, with a Nack as the latest reply,
\* and a call that returned the memory contents was not answered by a Nack.
C10_ReadMemoryNackFails ==
    /\ (pc \in {"read_memory_count", "read_memory_data"}) => ~IsNack(last_read)
    /\ (pc = "idle" /\ op = "read_memory" /\ result.status = "Ok") => ~IsNack(last_read)

\* C11: a successful read_memory(address, count) does its I/O in this order:
\* the ReadMemory command frame [0x11, 0xEE] and its reply (within
\* retry_command), then one frame of exactly 5 bytes for the address (its 4
\* bytes most significant first, then 1 checksum byte) and one reply byte,
\* then one frame of exactly 2 bytes (count, 255 - count) and one reply byte,
\* then one read of exactly count + 1 bytes (256 for count = 255), which are
\* returned; nothing is read or written after them.
C11_ReadMemoryOrder ==
    [][ /\ (op = "read_memory" /\ pc = "retry_command" /\ pc' \notin {"retry_command", "idle"})
            => /\ pc' = "read_memory_address"
               /\ tx' = Append(tx, <<17, 238>>)
               /\ reads' = reads + 1
               /\ IsAck(last_read')
        /\ (pc = "read_memory_address" /\ pc' # "idle")
            => /\ pc' = "read_memory_count"
               /\ Len(tx') = Len(tx) + 1
               /\ SubSeq(tx', 1, Len(tx)) = tx
               /\ LET f == tx'[Len(tx')]
                  IN  /\ Len(f) = 5
                      /\ (f[1] * 16777216) + (f[2] * 65536) + (f[3] * 256) + f[4] = address
               /\ reads' = reads + 1
        /\ (pc = "read_memory_count" /\ pc' # "idle")
            => /\ pc' = "read_memory_data"
               /\ tx' = Append(tx, <<byte_count, 255 - byte_count>>)
               /\ reads' = reads + 1
        /\ (pc = "read_memory_data")
            => /\ pc' = "idle"
               /\ tx' = tx
               /\ reads' = reads + 1
               /\ result'.status = "Ok"
                    => (result'.kind = "bytes" /\ Len(result'.val) = byte_count + 1)
        /\ (op' = "read_memory" /\ pc' = "idle" /\ result'.status = "Ok")
            => pc = "read_memory_data"
      ]_vars

\* C11 witness: read_memory(0x08000000, 255) returned 256 bytes after one
\* command frame, the address frame and the count frame, and four reads.
C11_Witness ==
    /\ pc = "idle"
    /\ op = "read_memory"
    /\ result.status = "Ok"
    /\ byte_count = 255
    /\ Len(result.val) = 256
    /\ tx = << <<17, 238>>, <<8, 0, 0, 0, 8>>, <<255, 0>> >>
    /\ reads = 4

\* C12: in get_protocol and get_id, for every length byte L in 0..255 read
\* from the device (L = 255 included) the operation goes on to read exactly
\* L + 1 payload bytes: the 8-bit L + 1 never wraps to 0 and never aborts the
\* program.
C12_LengthPlusOne ==
    /\ pc # "panicked"
    /\ (pc \in {"get_protocol_response", "get_id_response"})
           => response_bytes = last_read.b + 1
    /\ (pc \in {"get_protocol_ack", "get_id_ack"})
           => Len(response) = last_read.b + 1

\* the bytes of a sequence that are not in the set ok, in order
RECURSIVE NotIn(_, _)
NotIn(bytes, ok) ==
    IF bytes = <<>> THEN <<>>
    ELSE (IF Head(bytes) \in ok THEN <<>> ELSE <<Head(bytes)>>) \o NotIn(Tail(bytes), ok)

\* C13: when the payload of get_protocol holds, after the version byte, bytes
\* that are no command under the payload's version (neither Common nor in the
\* version's extended set: PreV4 for major < 4, else PostV4), the call fails
\* with the unknown-commands error listing exactly all of them, in payload
\* order; when it holds none, the call returns Ok.
C13_UnknownCommandsListed ==
    [][ (pc = "get_protocol_ack" /\ Len(response) > 0)
            => LET major == response[1] \div 16
                   minor == response[1] % 16
                   ok == CommonCommand \cup
                         (IF major < 4 THEN PreV4Command ELSE PostV4Command)
                   bad == NotIn(Tail(response), ok)
               IN  /\ pc' = "idle"
                   /\ IF bad = <<>>
                      THEN result'.status = "Ok"
                      ELSE /\ result'.status = "Err"
                           /\ result'.err = "UnknownCommands"
                           /\ result'.val = bad
                           /\ result'.ver = <<major, minor>>
      ]_vars

\* C13 witness: get_protocol failed on the payload [0x31, 0x04, 0x99] listing
\* both unknown bytes, in order, under version (3, 1).
C13_Witness ==
    /\ pc = "idle"
    /\ op = "get_protocol"
    /\ result.status = "Err"
    /\ result.err = "UnknownCommands"
    /\ result.val = <<4, 153>>
    /\ result.ver = <<3, 1>>

\* C14: parse_command(b) under a version, for every byte b: a Common opcode
\* {0x00,0x01,0x02,0x11,0x21,0x31,0x44,0x63} resolves to its Common command
\* whatever the version; any other byte fails when the version is unknown,
\* resolves under major < 4 exactly when it is a PreV4 opcode {0x43,0x73,0x82,
\* 0x92} (to that PreV4 command), and under major >= 4 exactly when it is a
\* PostV4 opcode {0x50,0x73} (to that PostV4 command).
C14_ParseCommand ==
    (fn = "parse_command")
        => LET version == arg[1]
               b == arg[2]
               common == b \in {0, 1, 2, 17, 33, 49, 68, 99}
           IN  /\ common => out = [some |-> TRUE, set |-> "Common", op |-> b]
               /\ (~common /\ version = <<>>) => ~out.some
               /\ (~common /\ version # <<>> /\ version[1] < 4)
                    => IF b \in {67, 115, 130, 146}
                       THEN out = [some |-> TRUE, set |-> "PreV4", op |-> b]
                       ELSE ~out.some
               /\ (~common /\ version # <<>> /\ version[1] >= 4)
                    => IF b \in {80, 115}
                       THEN out = [some |-> TRUE, set |-> "PostV4", op |-> b]
                       ELSE ~out.some

\* C14 witness: under version (4, 0) the byte 0x73 resolved to PostV4::Write.
C14_Witness ==
    /\ fn = "parse_command"
    /\ arg = << <<4, 0>>, 115 >>
    /\ out = [some |-> TRUE, set |-> "PostV4", op |-> 115]

\* C15: the initialised flag is one-way: no step of any operation, successful
\* or failed, takes it from true back to false.
C15_InitialisedOneWay ==
    [][ initialised => initialised' ]_vars

\* C15 witness: a command has failed on an Initialised session, and a second
\* initialise has been refused, with the flag still true.
C15_Witness ==
    /\ initialised
    /\ pc = "idle"
    /\ result.status = "Err"
    /\ result.err \in {"RetryExceeded", "CommandFail"}

\* C16: an operation that fails with a protocol violation (an unexpected
\* response byte, or unresolved command bytes in get_protocol's payload)
\* leaves initialised and protocol_version as they were before the call: the
\* only steps that change either field are steps that return Ok, so no step
\* of a failing call has changed them.
C16_ViolationKeepsState ==
    [][ /\ (session' # session) => (pc' = "idle" /\ result'.status = "Ok")
        /\ (pc' = "idle" /\ result'.status = "Err"
              /\ result'.err \in {"ExpectedAck", "UnknownCommands"})
            => session' = session
      ]_vars

\* C16 witness: get_protocol failed with unknown commands on a session whose
\* known version differs from the payload's, and the session's is kept.
C16_Witness ==
    /\ pc = "idle"
    /\ op = "get_protocol"
    /\ result.status = "Err"
    /\ result.err = "UnknownCommands"
    /\ initialised
    /\ is_known(protocol_version)
    /\ protocol_version # result.ver

\* C17: get_id decodes the payload that follows the length byte: exactly 2
\* bytes [hi, lo] give the 16-bit identifier hi * 256 + lo, a payload of any
\* other length is returned as the same bytes, unchanged and in order.
C17_ProductId ==
    [][ (pc = "get_id_ack")
            => /\ pc' = "idle"
               /\ result'.status = "Ok"
               /\ IF Len(response) = 2
                  THEN /\ result'.kind = "Stm32"
                       /\ result'.val = << (response[1] * 256) + response[2] >>
                  ELSE /\ result'.kind = "Unknown"
                       /\ result'.val = response
      ]_vars

\* C17 witness: get_id returned the identifier 0x0416 (from [0x01, 0x04, 0x16]).
C17_Witness ==
    /\ pc = "idle"
    /\ op = "get_id"
    /\ result.status = "Ok"
    /\ result.kind = "Stm32"
    /\ result.val = <<1046>>

\* C18: the single-opcode frame of a byte o is exactly [o, o XOR 0xFF] (the
\* second byte is 255 - o), for every command of Common, PreV4 and PostV4
\* and for every byte 0..255 sent by send_byte.
C18_SingleOpcodeFrame ==
    /\ (fn = "command_to_vec") => out = <<arg.op, 255 - arg.op>>
    /\ (fn = "send_byte") => out = <<arg, 255 - arg>>

\* C18 witness: the frame of the count byte 4 is [4, 251].
C18_Witness ==
    /\ fn = "send_byte"
    /\ arg = 4
    /\ out = <<4, 251>>

\* bit k of the xor of all bytes: the parity of the bytes that have bit k set
ParityBit(bytes, k) ==
    Cardinality({ i \in 1..Len(bytes) : (bytes[i] \div (2 ^ k)) % 2 = 1 }) % 2

XorOfAll(bytes) ==
    ParityBit(bytes, 0) + (2 * ParityBit(bytes, 1)) + (4 * ParityBit(bytes, 2))
    + (8 * ParityBit(bytes, 3)) + (16 * ParityBit(bytes, 4)) + (32 * ParityBit(bytes, 5))
    + (64 * ParityBit(bytes, 6)) + (128 * ParityBit(bytes, 7))

\* C19: the frame written for a byte sequence b is b followed by one byte,
\* the xor of all bytes of b (0 for the empty sequence), and every
\* permutation of b gets the same checksum byte.
C19_MultiByteFrame ==
    (fn = "send_bytes")
        => LET n == Len(arg)
           IN  /\ Len(out) = n + 1
               /\ SubSeq(out, 1, n) = arg
               /\ out[n + 1] = XorOfAll(arg)
               /\ \A p \in Permutations(1..n) :
                    BytesFrame([i \in 1..n |-> arg[p[i]]])[n + 1] = out[n + 1]

\* C19 witness: the frame of [0x08, 0x78, 0xFF] ends with 0x8F.
C19_Witness ==
    /\ fn = "send_bytes"
    /\ arg = <<8, 120, 255>>
    /\ out = <<8, 120, 255, 143>>

\* C20: while initialised is false, get_protocol, get_version, get_id and
\* read_memory neither write to nor read from the transport, however many
\* attempts retry_command makes, and they return an error.
C20_NoIoUninitialised ==
    (~initialised /\ op \in {"get_protocol", "get_version", "get_id", "read_memory"})
        => /\ tx = <<>>
           /\ reads = 0
           /\ pc \in {"retry_command", "idle"}
           /\ (pc = "idle") => result.status = "Err"

\* C20 witness: read_memory returned an error on an uninitialised session
\* after 5 attempts without any write or read.
C20_Witness ==
    /\ ~initialised
    /\ pc = "idle"
    /\ op = "read_memory"
    /\ result.status = "Err"
    /\ Len(errs) = 5
    /\ tx = <<>>
    /\ reads = 0

\* C21: initialise has no bound on the Nack bytes it skips: a turn of the
\* wait loop that reads Nack neither returns nor writes the wake byte again,
\* however many Nack bytes came before; and when every read returns and the
\* transport does not answer Nack for ever, initialise eventually returns.
C21_InitialiseWaits ==
    /\ [][ (pc = "initialise" /\ IsNack(last_read'))
             => /\ pc' = "initialise"
                /\ result' = Pending
                /\ tx = << <<WAKE>> >>
                /\ tx' = tx
                /\ initialised' = initialised
         ]_vars
    /\ (pc = "initialise") ~> (pc = "idle" /\ op = "initialise")

\* C21 witness: initialise is still waiting, with the wake byte written once,
\* after more than MaxNacks Nack bytes.
C21_Witness ==
    /\ pc = "initialise"
    /\ reads = MaxNacks + 1
    /\ IsNack(last_read)
    /\ result = Pending
    /\ tx = << <<WAKE>> >>
    /\ ~initialised

====
